---- MODULE Spec2Model ----
(***************************************************************************)
(* Model of src/app.py: the Streamlit script that assigns geographic units *)
(* to a control (holdout) or test group, filters the revenue series to the *)
(* trailing test window, sizes the experiment with a power solve, runs a   *)
(* Welch t-test and shows a summary table.                                 *)
(*                                                                         *)
(* The script is one straight-line run per input change; each commented    *)
(* block of the script is one action, and pc is the block the run is at.   *)
(***************************************************************************)
EXTENDS Integers, Sequences, FiniteSets, TLC

(***************************************************************************)
(* Bounds of the model.                                                    *)
(***************************************************************************)
MaxUnits == 4        \* distinct geo_location values in an uploaded file
MaxDates == 5        \* distinct dates in an uploaded file
MaxWeeks == 2        \* slider positions 1..MaxWeeks of "Test Duration"
MaxOrdered == 2      \* distinct units of the files uploaded in any row order
MaxCount == 100      \* unit counts 0..MaxCount of the holdout-count check

(***************************************************************************)
(* IEEE-754 binary64 arithmetic, as far as line 32 uses it:                *)
(*     int(len(cities) * (holdout_pct / 100))                              *)
(* A positive double is [m |-> limbs, e |-> exponent]: limbs is the 53-bit *)
(* significand M in base 1024, most significant limb first (six limbs, the *)
(* first in 4..7), and the value is M * 2^e.  Zero has no limbs.  Both     *)
(* operations round to nearest, ties to even, as the hardware does.        *)
(***************************************************************************)
MantissaBits == 53

RECURSIVE Pow2(_)
Pow2(n) == IF n = 0 THEN 1 ELSE 2 * Pow2(n - 1)

RECURSIVE BitLen(_)
\* the number of bits of n >= 0
BitLen(n) == IF n = 0 THEN 0 ELSE 1 + BitLen(n \div 2)

RECURSIVE QuotDigits(_, _, _)
\* the first n base-1024 digits of the expansion of r/d, 0 <= r < d
QuotDigits(r, d, n) ==
    IF n = 0 THEN <<>>
    ELSE <<(r * 1024) \div d>> \o QuotDigits((r * 1024) % d, d, n - 1)

RECURSIVE QuotRem(_, _, _)
\* the remainder left after those n digits
QuotRem(r, d, n) == IF n = 0 THEN r ELSE QuotRem((r * 1024) % d, d, n - 1)

RECURSIVE LeadingZeros(_, _)
\* zero bits of the binary expansion of r/d before its first one, 0 < r < d
LeadingZeros(r, d) == IF 2 * r >= d THEN 0 ELSE 1 + LeadingZeros(2 * r, d)

RECURSIVE IncLimbs(_)
\* limbs + 1; the first limb takes the last carry and may leave its range
IncLimbs(limbs) ==
    LET n == Len(limbs)
    IN  IF n = 1 THEN <<limbs[1] + 1>>
        ELSE IF limbs[n] < 1023 THEN [limbs EXCEPT ![n] = limbs[n] + 1]
        ELSE IncLimbs(SubSeq(limbs, 1, n - 1)) \o <<0>>

\* the significand `limbs` (53 bits) at exponent e, one more if `up`;
\* 2^53 is renormalised to 2^52 at the next exponent
Rounded(limbs, e, up) ==
    LET r == IF up THEN IncLimbs(limbs) ELSE limbs
    IN  IF r[1] = 8 THEN [m |-> <<4, 0, 0, 0, 0, 0>>, e |-> e + 1]
        ELSE [m |-> r, e |-> e]

FloatZero == [m |-> <<>>, e |-> 0]

\* p / d in Python for integers 0 <= p < d < 2^20: the correctly rounded quotient
FloatDiv(p, d) ==
    IF p = 0 THEN FloatZero
    ELSE LET z     == LeadingZeros(p, d)
             r0    == p * Pow2(z)                  \* 1/2 <= r0/d < 1
             r1    == (r0 * 8) % d
             limbs == <<(r0 * 8) \div d>> \o QuotDigits(r1, d, 5)
             rem   == QuotRem(r1, d, 5)
             up    == 2 * rem > d \/ (2 * rem = d /\ limbs[6] % 2 = 1)
         IN  Rounded(limbs, 0 - (MantissaBits + z), up)

RECURSIVE MulLimbs(_, _, _)
\* limbs * n + carry, most significant limb first, for 0 < n < 1024
MulLimbs(limbs, n, carry) ==
    IF limbs = <<>> THEN (IF carry = 0 THEN <<>> ELSE <<carry>>)
    ELSE LET t == limbs[Len(limbs)] * n + carry
         IN  MulLimbs(SubSeq(limbs, 1, Len(limbs) - 1), n, t \div 1024)
                \o <<t % 1024>>

\* limbs shifted right by k < 10 bits
ShiftRight(limbs, k) ==
    [i \in 1..Len(limbs) |->
        (limbs[i] \div Pow2(k))
          + (IF i > 1 THEN (limbs[i - 1] % Pow2(k)) * Pow2(10 - k) ELSE 0)]

\* n * f in Python for an integer 0 <= n < 1024 (exactly a double) and a double f
FloatMulInt(n, f) ==
    IF n = 0 \/ f.m = <<>> THEN FloatZero
    ELSE LET prod    == MulLimbs(f.m, n, 0)
             bits    == 10 * (Len(prod) - 1) + BitLen(prod[1])
             k       == bits - MantissaBits
             shifted == ShiftRight(prod, k)
             limbs   == IF shifted[1] = 0 THEN Tail(shifted) ELSE shifted
             dropped == prod[Len(prod)] % Pow2(k)
             up      == k > 0 /\ (2 * dropped > Pow2(k)
                                    \/ (2 * dropped = Pow2(k) /\ limbs[6] % 2 = 1))
         IN  Rounded(limbs, f.e + k, up)

RECURSIVE LimbsToInt(_)
LimbsToInt(limbs) ==
    IF limbs = <<>> THEN 0
    ELSE 1024 * LimbsToInt(SubSeq(limbs, 1, Len(limbs) - 1)) + limbs[Len(limbs)]

\* int(f): truncation toward zero of a double 0 <= f < 2^20
FloatToInt(f) ==
    IF f.m = <<>> THEN 0
    ELSE LET s == 0 - f.e
             q == s \div 10
         IN  IF q >= Len(f.m) THEN 0
             ELSE LimbsToInt(SubSeq(f.m, 1, Len(f.m) - q)) \div Pow2(s % 10)

\* line 32: holdout_count = int(len(cities) * (holdout_pct / 100))
HoldoutCount(n, pct) == FloatToInt(FloatMulInt(n, FloatDiv(pct, 100)))

(***************************************************************************)
(* numpy's global generator.  np.random.seed(42) (line 30) initialises the *)
(* Mersenne Twister with init_genrand(42); MT19937_42 holds the low four   *)
(* bits of its first 32-bit outputs (1608637542, 3421126067, 4083286876,   *)
(* ...), which is all a draw below 16 reads.  The generator's state is the *)
(* number of outputs consumed: np.random is process-global and survives    *)
(* from one run of the script to the next.                                 *)
(***************************************************************************)
MT19937_42 ==
    << 6, 3, 12, 14, 10, 7, 12, 4, 6, 9, 2, 6, 10, 10, 7, 4, 3, 7, 7, 2,
       5, 4, 1, 7, 11, 13, 5, 1, 15, 11, 4, 0, 11, 9, 5, 12, 11, 8, 0, 10 >>

\* the output at position pos (0-based); the table repeats past its end
NextUint32(pos) == MT19937_42[(pos % Len(MT19937_42)) + 1]

\* the seeding forgotten: the generator goes on from where it was
SeedForgotten(state) == state

\* np.random.seed(42): the generator restarts at the head of the stream
Seed42(state) == 0

RECURSIVE MaskOf(_)
\* the smallest 2^k - 1 >= max
MaskOf(max) == IF max = 0 THEN 0 ELSE 2 * MaskOf(max \div 2) + 1

RECURSIVE RandomInterval(_, _)
\* legacy random_interval: a uniform draw in 0..max by masked rejection;
\* <<value, generator state after it>>
RandomInterval(pos, max) ==
    IF max = 0 THEN <<0, pos>>
    ELSE LET v == NextUint32(pos) % (MaskOf(max) + 1)
         IN  IF v <= max THEN <<v, pos + 1>> ELSE RandomInterval(pos + 1, max)

Swap(x, i, j) == [x EXCEPT ![i] = x[j], ![j] = x[i]]

RECURSIVE ShuffleFrom(_, _, _)
\* RandomState.shuffle: for i in reversed(range(1, n)): swap x[i], x[draw(i)]
\* (x is 1-based here, i is the 0-based index of the source)
ShuffleFrom(x, i, pos) ==
    IF i < 1 THEN <<x, pos>>
    ELSE LET d == RandomInterval(pos, i)
         IN  ShuffleFrom(Swap(x, i + 1, d[1] + 1), i - 1, d[2])

\* RandomState.permutation(n): shuffle of arange(n)
Permutation(n, pos) == ShuffleFrom([i \in 1..n |-> i - 1], n - 1, pos)

\* line 33: np.random.choice(a, size, replace=False) = a[permutation(len(a))[:size]];
\* [out |-> the sample, rng |-> the generator state after it]
Choice(a, size, pos) ==
    LET p == Permutation(Len(a), pos)
    IN  [out |-> [k \in 1..size |-> a[p[1][k] + 1]], rng |-> p[2]]

Range(s) == {s[i] : i \in 1..Len(s)}

\* pandas Series.unique(): the distinct values in order of first appearance
Unique(s) ==
    LET first == SelectSeq([i \in 1..Len(s) |-> i],
                           LAMBDA i : \A j \in 1..(i - 1) : s[j] # s[i])
    IN  [k \in 1..Len(first) |-> s[first[k]]]

(***************************************************************************)
(* Floating-point values of the statistics.  A finite value is the exact   *)
(* rational [k |-> "num", n, d] (d > 0, lowest terms); "sqrt" is the       *)
(* positive square root of a rational and "quot" a quotient by one, kept   *)
(* symbolic; nan, inf and -inf are the IEEE specials numpy produces        *)
(* instead of raising; None is Python's None.                              *)
(***************************************************************************)
None == [k |-> "None"]
NaN == [k |-> "nan"]
Inf == [k |-> "inf"]
NegInf == [k |-> "-inf"]

RECURSIVE GCD(_, _)
GCD(a, b) == IF b = 0 THEN a ELSE GCD(b, a % b)

Abs(x) == IF x < 0 THEN 0 - x ELSE x

\* the rational n/d (d # 0) in lowest terms
Num(n, d) ==
    LET g == GCD(Abs(n), Abs(d))
        sg == IF d < 0 THEN 0 - 1 ELSE 1
    IN  [k |-> "num", n |-> (sg * n) \div g, d |-> (sg * d) \div g]

IsNum(x) == x.k = "num"
IsZero(x) == x.k = "num" /\ x.n = 0
IsSpecial(x) == x.k \in {"nan", "inf", "-inf"}

RECURSIVE Sum(_)
Sum(xs) == IF xs = <<>> THEN 0 ELSE Head(xs) + Sum(Tail(xs))

SumSq(xs) == Sum([i \in 1..Len(xs) |-> xs[i] * xs[i]])

\* Series.mean(): nan for an empty series
Mean(xs) == IF Len(xs) = 0 THEN NaN ELSE Num(Sum(xs), Len(xs))

\* the sample variance (ddof = 1): nan for fewer than two values
Var(xs) ==
    LET n == Len(xs)
    IN  IF n < 2 THEN NaN
        ELSE Num(n * SumSq(xs) - Sum(xs) * Sum(xs), n * (n - 1))

Sqrt(v) ==
    IF IsNum(v) /\ v.n > 0 THEN [k |-> "sqrt", n |-> v.n, d |-> v.d] ELSE v

\* Series.std(): the square root of the sample variance
Std(xs) == Sqrt(Var(xs))

\* a - b for finite rationals, nan if either is nan
FSub(a, b) ==
    IF ~IsNum(a) \/ ~IsNum(b) THEN NaN
    ELSE Num(a.n * b.d - b.n * a.d, a.d * b.d)

\* (n/d) * x for x a rational or nan
FScale(n, d, x) == IF ~IsNum(x) THEN x ELSE Num(n * x.n, d * x.d)

\* numpy float64 division a / b: division by zero gives inf, -inf or nan
\* (a RuntimeWarning, no exception)
FDiv(a, b) ==
    IF a.k = "nan" \/ b.k = "nan" THEN NaN
    ELSE IF IsZero(b)
         THEN IF IsZero(a) THEN NaN ELSE IF a.n > 0 THEN Inf ELSE NegInf
    ELSE IF IsZero(a) THEN Num(0, 1)
    ELSE IF IsNum(b) THEN Num(a.n * b.d, a.d * b.n)
    ELSE [k |-> "quot", num |-> a, den |-> b]

\* x * 100 for a float
FTimes100(x) == IF IsNum(x) THEN Num(100 * x.n, x.d) ELSE x

RECURSIVE Pow10(_)
Pow10(n) == IF n = 0 THEN 1 ELSE 10 * Pow10(n - 1)

\* round(x, nd): to nd decimals, ties to even; nan and inf pass through
Round(x, nd) ==
    IF IsNum(x)
    THEN LET sc == x.n * Pow10(nd)
             q  == sc \div x.d
             r  == sc % x.d
             up == 2 * r > x.d \/ (2 * r = x.d /\ q % 2 = 1)
         IN  Num(IF up THEN q + 1 ELSE q, Pow10(nd))
    ELSE IF IsSpecial(x) THEN x
    ELSE [k |-> "round", nd |-> nd, of |-> x]

(***************************************************************************)
(* The state of one session.  The first five variables are the widgets'    *)
(* values (lines 13-22), the rest are the script's variables, under their  *)
(* names in the source.                                                    *)
(***************************************************************************)
VARIABLES
    uploaded,             \* revenue_file and orders_file are both set
    revenue_df,           \* rows [date, geo_location, revenue, group]
    budget_increase_pct,
    test_weeks,
    holdout_pct,
    pc,                   \* the block of the script the run is at
    rng,                  \* numpy's global generator: outputs consumed
    cities,
    holdout_count,
    control_cities,
    test_start,
    test_df,
    baseline,
    std_dev,
    lift_amt,
    effect_size,
    solved_for,           \* the effect size handed to solve_power, if called
    sample_needed,
    test_group,
    control_group,
    warnings,             \* the st.warning messages shown, in order
    ttest_ran,            \* ttest_ind was called
    t_stat,
    p_val,
    obs_lift,
    percent_lift,
    results,              \* the summary table
    avg_ts,               \* the line chart's per-date, per-group means
    error,                \* the uncaught exception that ended the run
    ref                   \* the assignment of an earlier run of the session, or None

inputs == <<uploaded, revenue_df, budget_increase_pct, test_weeks, holdout_pct>>

locals == <<cities, holdout_count, control_cities, test_start, test_df, baseline,
            std_dev, lift_amt, effect_size, solved_for, sample_needed, test_group,
            control_group, warnings, ttest_ran, t_stat, p_val, obs_lift,
            percent_lift, results, avg_ts, error>>

vars == <<inputs, pc, rng, locals, ref>>

weekly_budget == 500

\* the messages of lines 60 and 64
ControlTooSmall == "Control group is too small for valid statistical analysis"
Underpowered == "Your sample sizes are smaller than required"

(***************************************************************************)
(* The uploaded files and the slider positions the model draws from.       *)
(***************************************************************************)
Units == 1..MaxUnits               \* geo_location ids
Revenues == {0, 1}
Cadences == {1, 7}                 \* daily or weekly rows
HoldoutPcts == {0, 34, 50}         \* of the slider's 0..50
BudgetPcts == {0, 20}              \* of the slider's 0..100
Weeks == 1..MaxWeeks               \* of the slider's 1..12
SampleSizes == {2, 5, 10}          \* of the sizes the power solve returns

\* a panel file: ndates dates `cadence` days apart, and on each date one row
\* per unit, in the order `order`, with the unit's revenue
FileRows(order, rev, cadence, ndates) ==
    LET n == Len(order)
    IN  [i \in 1..(n * ndates) |->
            [date         |-> ((i - 1) \div n) * cadence,
             geo_location |-> order[((i - 1) % n) + 1],
             revenue      |-> rev[order[((i - 1) % n) + 1]],
             group        |-> ""]]

\* the revenues of n units: the same for all of them, or alternating from
\* one unit to the next
RevenuesOf(n) ==
    {r \in [1..n -> Revenues] :
        \/ \A u \in 1..n : r[u] = r[1]
        \/ \A u \in 2..n : r[u] # r[u - 1]}

\* the files of the single-run specifications: units 1..n in that order of
\* first appearance (the script treats unit names alike, so the order stands
\* for every order)
Files ==
    UNION {{FileRows([i \in 1..n |-> i], r, c, d) :
               r \in RevenuesOf(n), c \in Cadences, d \in 1..MaxDates}
             : n \in 1..MaxUnits}

\* the sequences of distinct units among 1..MaxOrdered
Orders ==
    UNION {{o \in [1..n -> 1..MaxOrdered] :
               \A i, j \in 1..n : i # j => o[i] # o[j]}
             : n \in 1..MaxOrdered}

\* the files of the rerun specification: the units in every order of first
\* appearance, weekly rows
OrderedFiles ==
    {FileRows(o, [u \in 1..MaxOrdered |-> u % 2], 7, 2) : o \in Orders}

Unset ==
    /\ cities = <<>>
    /\ holdout_count = 0
    /\ control_cities = <<>>
    /\ test_start = 0
    /\ test_df = <<>>
    /\ baseline = None
    /\ std_dev = None
    /\ lift_amt = None
    /\ effect_size = None
    /\ solved_for = None
    /\ sample_needed = 0
    /\ test_group = <<>>
    /\ control_group = <<>>
    /\ warnings = <<>>
    /\ ttest_ran = FALSE
    /\ t_stat = None
    /\ p_val = None
    /\ obs_lift = None
    /\ percent_lift = None
    /\ results = None
    /\ avg_ts = None
    /\ error = "none"

\* the widgets' values of a run: nothing uploaded yet (the sliders at their
\* defaults), or two files from `files` and the sliders somewhere, the test
\* duration in `weeks`
InputSet(files, weeks) ==
    {[uploaded |-> FALSE, revenue_df |-> <<>>, budget_increase_pct |-> 20,
      test_weeks |-> 4, holdout_pct |-> 20]}
      \cup [uploaded : {TRUE}, revenue_df : files,
            budget_increase_pct : BudgetPcts, test_weeks : weeks,
            holdout_pct : HoldoutPcts]

Init ==
    /\ \E in \in InputSet(Files, Weeks) :
          /\ uploaded = in.uploaded
          /\ revenue_df = in.revenue_df
          /\ budget_increase_pct = in.budget_increase_pct
          /\ test_weeks = in.test_weeks
          /\ holdout_pct = in.holdout_pct
    /\ pc = "start"
    /\ rng = 0
    /\ ref = None
    /\ Unset

(***************************************************************************)
(* The script, block by block.                                             *)
(***************************************************************************)
Column(df, f) == [i \in 1..Len(df) |-> df[i][f]]

\* lines 100-101: without both files the script only shows a hint
NoFiles ==
    /\ pc = "start"
    /\ ~uploaded
    /\ pc' = "idle"
    /\ UNCHANGED <<inputs, rng, locals, ref>>

\* lines 24-27: both files are read
LoadData ==
    /\ pc = "start"
    /\ uploaded
    /\ pc' = "assign"
    /\ UNCHANGED <<inputs, rng, locals, ref>>

\* the label with its else branch lost
GroupOfNoElse(x, control) == IF x \in Range(control) THEN "control" ELSE ""

\* line 34: the lambda that labels a row
GroupOf(x, control) == IF x \in Range(control) THEN "control" ELSE "test"

\* lines 29-38: seed, count the units, draw the holdout, label every row
AssignGroups ==
    /\ pc = "assign"
    /\ LET u  == Unique(Column(revenue_df, "geo_location"))
           hc == HoldoutCount(Len(u), holdout_pct)
           ch == Choice(u, hc, Seed42(rng))
       IN  /\ cities' = u
           /\ holdout_count' = hc
           /\ control_cities' = ch.out
           /\ rng' = ch.rng
           /\ revenue_df' =
                [i \in 1..Len(revenue_df) |->
                    [revenue_df[i] EXCEPT
                        !.group = GroupOf(revenue_df[i].geo_location, ch.out)]]
    /\ pc' = "filter"
    /\ UNCHANGED <<uploaded, budget_increase_pct, test_weeks, holdout_pct,
                   test_start, test_df, baseline, std_dev, lift_amt, effect_size,
                   solved_for, sample_needed, test_group, control_group, warnings,
                   ttest_ran, t_stat, p_val, obs_lift, percent_lift, results,
                   avg_ts, error, ref>>

RECURSIVE MaxOf(_)
\* Series.max() of a non-empty column
MaxOf(xs) ==
    IF Len(xs) = 1 THEN xs[1]
    ELSE LET m == MaxOf(Tail(xs)) IN IF Head(xs) > m THEN Head(xs) ELSE m

RECURSIVE MinOf(_)
MinOf(xs) ==
    IF Len(xs) = 1 THEN xs[1]
    ELSE LET m == MinOf(Tail(xs)) IN IF Head(xs) < m THEN Head(xs) ELSE m

\* the window counted in days instead of weeks
DaysNotWeeks(weeks) == weeks

\* line 41
Days(weeks) == weeks * 7

\* line 42: test_start = max(date) - Timedelta(days)
TestStart(df, weeks) == MaxOf(Column(df, "date")) - Days(weeks)

\* the boundary day kept
InWindowInclusive(row, start) == row.date >= start

\* line 43: the row mask date > test_start
InWindow(row, start) == row.date > start

\* lines 40-43
FilterWindow ==
    /\ pc = "filter"
    /\ LET ts == TestStart(revenue_df, test_weeks)
       IN  /\ test_start' = ts
           /\ test_df' = SelectSeq(revenue_df, LAMBDA r : InWindow(r, ts))
    /\ pc' = "power"
    /\ UNCHANGED <<inputs, rng, cities, holdout_count, control_cities, baseline,
                   std_dev, lift_amt, effect_size, solved_for, sample_needed,
                   test_group, control_group, warnings, ttest_ran, t_stat, p_val,
                   obs_lift, percent_lift, results, avg_ts, error, ref>>

\* lines 46-49
Baseline(df) == Mean(Column(df, "revenue"))
StdDev(df) == Std(Column(df, "revenue"))
LiftAmt(pct, base) == FScale(pct, 100, base)
EffectSize(lift, std) == FDiv(lift, std)

(***************************************************************************)
(* line 52: TTestIndPower().solve_power is statsmodels' numeric solve; the *)
(* model takes its result from SampleSizes.  An effect size of exactly 0   *)
(* makes it raise ValueError ("Cannot detect an effect-size of 0").  For   *)
(* nan or inf no root exists: depending on the installed statsmodels,      *)
(* scipy and numpy the call raises, or int() of its result does, or the    *)
(* solver's start value comes back; the model allows each.                 *)
(***************************************************************************)
SolveReturns(es) == IF IsZero(es) THEN {} ELSE SampleSizes
SolveRaises(es) == IsZero(es) \/ IsSpecial(es)

PowerLocals ==
    /\ baseline' = Baseline(test_df)
    /\ std_dev' = StdDev(test_df)
    /\ lift_amt' = LiftAmt(budget_increase_pct, baseline')
    /\ effect_size' = EffectSize(lift_amt', std_dev')
    /\ solved_for' = effect_size'

\* lines 45-52, the solve returning
PowerAnalysis ==
    /\ pc = "power"
    /\ PowerLocals
    /\ sample_needed' \in SolveReturns(effect_size')
    /\ pc' = "observed"
    /\ UNCHANGED <<inputs, rng, cities, holdout_count, control_cities, test_start,
                   test_df, test_group, control_group, warnings, ttest_ran, t_stat,
                   p_val, obs_lift, percent_lift, results, avg_ts, error, ref>>

\* lines 45-52, the solve raising: the script stops with the exception
PowerAnalysisRaises ==
    /\ pc = "power"
    /\ PowerLocals
    /\ SolveRaises(effect_size')
    /\ error' = "ValueError"
    /\ pc' = "crashed"
    /\ UNCHANGED <<inputs, rng, cities, holdout_count, control_cities, test_start,
                   test_df, sample_needed, test_group, control_group, warnings,
                   ttest_ran, t_stat, p_val, obs_lift, percent_lift, results,
                   avg_ts, ref>>

\* lines 55-56: the revenue of the windowed rows of one group
GroupRevenue(df, g) == Column(SelectSeq(df, LAMBDA r : r.group = g), "revenue")

\* lines 54-56
ObservedMetrics ==
    /\ pc = "observed"
    /\ test_group' = GroupRevenue(test_df, "test")
    /\ control_group' = GroupRevenue(test_df, "control")
    /\ pc' = "warn_control"
    /\ UNCHANGED <<inputs, rng, cities, holdout_count, control_cities, test_start,
                   test_df, baseline, std_dev, lift_amt, effect_size, solved_for,
                   sample_needed, warnings, ttest_ran, t_stat, p_val, obs_lift,
                   percent_lift, results, avg_ts, error, ref>>

\* the threshold off by one
ControlIsTooSmallInclusive(control) == Len(control) <= 5

\* line 59
ControlIsTooSmall(control) == Len(control) < 5

\* lines 58-60: st.warning shows a message and returns
WarnControl ==
    /\ pc = "warn_control"
    /\ warnings' = IF ControlIsTooSmall(control_group)
                   THEN Append(warnings, ControlTooSmall) ELSE warnings
    /\ pc' = "warn_power"
    /\ UNCHANGED <<inputs, rng, cities, holdout_count, control_cities, test_start,
                   test_df, baseline, std_dev, lift_amt, effect_size, solved_for,
                   sample_needed, test_group, control_group, ttest_ran, t_stat,
                   p_val, obs_lift, percent_lift, results, avg_ts, error, ref>>

\* line 63
IsUnderpowered(test, control, needed) ==
    Len(test) < needed \/ Len(control) < needed

\* lines 62-64
WarnPower ==
    /\ pc = "warn_power"
    /\ warnings' = IF IsUnderpowered(test_group, control_group, sample_needed)
                   THEN Append(warnings, Underpowered) ELSE warnings
    /\ pc' = "ttest"
    /\ UNCHANGED <<inputs, rng, cities, holdout_count, control_cities, test_start,
                   test_df, baseline, std_dev, lift_amt, effect_size, solved_for,
                   sample_needed, test_group, control_group, ttest_ran, t_stat,
                   p_val, obs_lift, percent_lift, results, avg_ts, error, ref>>

\* the guard with `or` for `and`
TTestValidEither(test, control) == Len(test) >= 2 \/ Len(control) >= 2

\* line 67
TTestValid(test, control) == Len(test) >= 2 /\ Len(control) >= 2

\* a + b for rationals, nan if either is nan
FAdd(a, b) ==
    IF ~IsNum(a) \/ ~IsNum(b) THEN NaN
    ELSE Num(a.n * b.d + b.n * a.d, a.d * b.d)

\* line 68: ttest_ind(a, b, equal_var=False), Welch's statistic
\* (mean(a) - mean(b)) / sqrt(var(a)/len(a) + var(b)/len(b))
WelchT(a, b) ==
    FDiv(FSub(Mean(a), Mean(b)),
         Sqrt(FAdd(FScale(1, Len(a), Var(a)), FScale(1, Len(b), Var(b)))))

\* its two-sided p-value, a function of the statistic and the sample sizes
WelchP(a, b) ==
    LET t == WelchT(a, b)
    IN  IF t.k = "nan" THEN NaN
        ELSE [k |-> "pvalue", t |-> t, n1 |-> Len(a), n2 |-> Len(b)]

\* line 69
ObsLift(test, control) == FSub(Mean(test), Mean(control))

\* line 70
PercentLift(lift, control) == FTimes100(FDiv(lift, Mean(control)))

\* lines 66-72
SignificanceTest ==
    /\ pc = "ttest"
    /\ IF TTestValid(test_group, control_group)
       THEN /\ ttest_ran' = TRUE
            /\ t_stat' = WelchT(test_group, control_group)
            /\ p_val' = WelchP(test_group, control_group)
            /\ obs_lift' = ObsLift(test_group, control_group)
            /\ percent_lift' = PercentLift(obs_lift', control_group)
       ELSE /\ ttest_ran' = FALSE
            /\ t_stat' = None
            /\ p_val' = None
            /\ obs_lift' = None
            /\ percent_lift' = None
    /\ pc' = "summary"
    /\ UNCHANGED <<inputs, rng, cities, holdout_count, control_cities, test_start,
                   test_df, baseline, std_dev, lift_amt, effect_size, solved_for,
                   sample_needed, test_group, control_group, warnings, results,
                   avg_ts, error, ref>>

\* the table's cells that are text
NA == [k |-> "N/A"]
Percent(x) == [k |-> "%", v |-> x]
Dollars(x) == [k |-> "$", v |-> x]

\* line 75
TotalBudget(pct, weeks) == Num(weekly_budget * (100 + pct) * weeks, 100)

\* lines 79-91
Results ==
    [required_sample_size |-> sample_needed,
     actual_test          |-> Len(test_group),
     actual_control       |-> Len(control_group),
     baseline_revenue     |-> Round(baseline, 2),
     expected_lift        |-> Round(lift_amt, 2),
     effect_size          |-> Round(effect_size, 3),
     observed_lift        |-> IF obs_lift # None THEN Round(obs_lift, 2) ELSE NA,
     observed_pct_lift    |-> IF percent_lift # None
                              THEN Percent(Round(percent_lift, 2)) ELSE NA,
     p_value              |-> IF p_val # None THEN Round(p_val, 4) ELSE NA,
     total_budget         |-> Dollars(Round(TotalBudget(budget_increase_pct,
                                                        test_weeks), 2)),
     holdout_size         |-> Percent(Round(Num(holdout_count * 100, Len(cities)),
                                            1))]

\* line 97: test_df.groupby(["date", "group"])["revenue"].mean()
AvgTs(df) ==
    {[date |-> df[i].date, group |-> df[i].group,
      mean |-> Mean(Column(SelectSeq(df, LAMBDA r : r.date = df[i].date
                                                    /\ r.group = df[i].group),
                           "revenue"))] : i \in 1..Len(df)}

\* lines 74-98: the summary table and the chart
Summary ==
    /\ pc = "summary"
    /\ results' = Results
    /\ avg_ts' = AvgTs(test_df)
    /\ pc' = "done"
    /\ UNCHANGED <<inputs, rng, cities, holdout_count, control_cities, test_start,
                   test_df, baseline, std_dev, lift_amt, effect_size, solved_for,
                   sample_needed, test_group, control_group, warnings, ttest_ran,
                   t_stat, p_val, obs_lift, percent_lift, error, ref>>

Step ==
    \/ NoFiles
    \/ LoadData
    \/ AssignGroups
    \/ FilterWindow
    \/ PowerAnalysis
    \/ PowerAnalysisRaises
    \/ ObservedMetrics
    \/ WarnControl
    \/ WarnPower
    \/ SignificanceTest
    \/ Summary

Next == Step

\* one run of the script
Spec == Init /\ [][Next]_vars

(***************************************************************************)
(* A session.  Streamlit runs the script again, from its first line, on    *)
(* every change of a widget; the script's variables start afresh, the      *)
(* process and numpy's global generator stay.  ref remembers the           *)
(* assignment of one earlier run, to compare later runs with.              *)
(***************************************************************************)
\* the script's variables before its first line runs again
Restart ==
    /\ cities' = <<>>
    /\ holdout_count' = 0
    /\ control_cities' = <<>>
    /\ test_start' = 0
    /\ test_df' = <<>>
    /\ baseline' = None
    /\ std_dev' = None
    /\ lift_amt' = None
    /\ effect_size' = None
    /\ solved_for' = None
    /\ sample_needed' = 0
    /\ test_group' = <<>>
    /\ control_group' = <<>>
    /\ warnings' = <<>>
    /\ ttest_ran' = FALSE
    /\ t_stat' = None
    /\ p_val' = None
    /\ obs_lift' = None
    /\ percent_lift' = None
    /\ results' = None
    /\ avg_ts' = None
    /\ error' = "none"

Rerun ==
    /\ pc \in {"done", "crashed", "idle"}
    /\ \E in \in InputSet(OrderedFiles, {1}) :
          /\ uploaded' = in.uploaded
          /\ revenue_df' = in.revenue_df
          /\ budget_increase_pct' = in.budget_increase_pct
          /\ test_weeks' = in.test_weeks
          /\ holdout_pct' = in.holdout_pct
    /\ pc' = "start"
    /\ rng' = rng
    /\ ref' \in IF ref = None /\ pc # "idle"
                THEN {None, [cities |-> cities, holdout_pct |-> holdout_pct,
                             budget_increase_pct |-> budget_increase_pct,
                             control |-> control_cities]}
                ELSE {ref}
    /\ Restart

InitSession ==
    /\ \E in \in InputSet(OrderedFiles, {1}) :
          /\ uploaded = in.uploaded
          /\ revenue_df = in.revenue_df
          /\ budget_increase_pct = in.budget_increase_pct
          /\ test_weeks = in.test_weeks
          /\ holdout_pct = in.holdout_pct
    /\ pc = "start"
    /\ rng = 0
    /\ ref = None
    /\ Unset

NextSession == Step \/ Rerun

SpecSession == InitSession /\ [][NextSession]_vars

(***************************************************************************)
(* Line 32 on its own, for every unit count up to MaxCount and every       *)
(* position of the holdout slider.                                         *)
(***************************************************************************)
InitCount ==
    /\ uploaded = TRUE
    /\ \E n \in 0..MaxCount :
          revenue_df = FileRows([i \in 1..n |-> i], [i \in 1..n |-> 1], 7, 1)
    /\ budget_increase_pct = 20
    /\ test_weeks = 4
    /\ holdout_pct \in 0..50
    /\ pc = "count"
    /\ rng = 0
    /\ ref = None
    /\ cities = Unique(Column(revenue_df, "geo_location"))
    /\ holdout_count = 0
    /\ control_cities = <<>>
    /\ test_start = 0
    /\ test_df = <<>>
    /\ baseline = None
    /\ std_dev = None
    /\ lift_amt = None
    /\ effect_size = None
    /\ solved_for = None
    /\ sample_needed = 0
    /\ test_group = <<>>
    /\ control_group = <<>>
    /\ warnings = <<>>
    /\ ttest_ran = FALSE
    /\ t_stat = None
    /\ p_val = None
    /\ obs_lift = None
    /\ percent_lift = None
    /\ results = None
    /\ avg_ts = None
    /\ error = "none"

\* lines 31-32
CountHoldout ==
    /\ pc = "count"
    /\ holdout_count' = HoldoutCount(Len(cities), holdout_pct)
    /\ pc' = "counted"
    /\ UNCHANGED <<inputs, rng, cities, control_cities, test_start, test_df,
                   baseline, std_dev, lift_amt, effect_size, solved_for,
                   sample_needed, test_group, control_group, warnings, ttest_ran,
                   t_stat, p_val, obs_lift, percent_lift, results, avg_ts, error,
                   ref>>

SpecCount == InitCount /\ [][CountHoldout]_vars

(***************************************************************************)
(* The properties.                                                         *)
(***************************************************************************)
RowsOf(df) == 1..Len(df)
Assigned == pc \in {"filter", "power", "observed", "warn_control", "warn_power",
                    "ttest", "summary", "done", "crashed"}
Filtered == pc \in {"power", "observed", "warn_control", "warn_power", "ttest",
                    "summary", "done", "crashed"}
Observed == pc \in {"warn_control", "warn_power", "ttest", "summary", "done"}
Tested == pc \in {"summary", "done"}

AllUnits == {revenue_df[i].geo_location : i \in RowsOf(revenue_df)}
UnitsIn(g) ==
    {revenue_df[i].geo_location : i \in {j \in RowsOf(revenue_df) :
                                             revenue_df[j].group = g}}

\* C1: once the groups are assigned, every row is labelled control or test,
\* no unit has rows of both labels, every unit is in one of the two sets, the
\* sizes of the two sets add up to the number of distinct units, and the
\* control set is the set that was drawn.
C1_TotalPartition ==
    Assigned =>
        /\ \A i \in RowsOf(revenue_df) : revenue_df[i].group \in {"control", "test"}
        /\ UnitsIn("control") \cap UnitsIn("test") = {}
        /\ UnitsIn("control") \cup UnitsIn("test") = AllUnits
        /\ Cardinality(UnitsIn("control")) + Cardinality(UnitsIn("test"))
              = Cardinality(AllUnits)
        /\ UnitsIn("control") = Range(control_cities)

C1_Witness ==
    /\ Assigned
    /\ Cardinality(UnitsIn("control")) = 2
    /\ Cardinality(UnitsIn("test")) = 2
    /\ Len(revenue_df) > Cardinality(AllUnits)

\* C2: the number of control units is floor(N * p / 100), N the number of
\* distinct units and p the holdout percentage.
C2_FloorCount ==
    pc = "counted" => holdout_count = (Len(cities) * holdout_pct) \div 100

\* C3 as claimed: a run with the same set of units and the same holdout
\* percentage as an earlier run has the same control units.
C3_SameSetSameControl ==
    (Assigned /\ ref # None) =>
        ((Range(ref.cities) = Range(cities) /\ ref.holdout_pct = holdout_pct)
            => Range(control_cities) = Range(ref.control))

\* C3 as amended: a run whose units appear first in the same order as in an
\* earlier run, with the same holdout percentage, has the same control
\* units, whatever the other widgets hold.
C3_SameOrderSameControl ==
    (Assigned /\ ref # None) =>
        ((ref.cities = cities /\ ref.holdout_pct = holdout_pct)
            => control_cities = ref.control)

C3_Witness ==
    /\ Assigned
    /\ ref # None
    /\ ref.cities = cities
    /\ ref.holdout_pct = holdout_pct
    /\ ref.budget_increase_pct # budget_increase_pct
    /\ Len(cities) >= 2
    /\ control_cities # <<>>
    /\ control_cities = ref.control

AllNone == t_stat = None /\ p_val = None /\ obs_lift = None /\ percent_lift = None
AllComputed == t_stat # None /\ p_val # None /\ obs_lift # None /\ percent_lift # None
TooFew == Len(test_group) < 2 \/ Len(control_group) < 2

\* C4: before the guard nothing is computed; after it, with fewer than two
\* observations in a group the t-test was not called, the four values are
\* None and the table shows N/A for them; with two or more in both groups
\* the t-test was called and the four values are computed.
C4_TTestGuard ==
    /\ (pc \notin {"summary", "done"}) => (~ttest_ran /\ AllNone)
    /\ (Tested /\ TooFew) => (~ttest_ran /\ AllNone)
    /\ (Tested /\ ~TooFew) => (ttest_ran /\ AllComputed)
    /\ (pc = "done" /\ TooFew) =>
          /\ results.observed_lift = NA
          /\ results.observed_pct_lift = NA
          /\ results.p_value = NA
    /\ (pc = "done" /\ ~TooFew) =>
          /\ results.observed_lift # NA
          /\ results.observed_pct_lift # NA
          /\ results.p_value # NA

C4_Witness ==
    /\ pc = "done"
    /\ Len(test_group) >= 2
    /\ Len(control_group) = 1
    /\ results.p_value = NA

Dates == {revenue_df[i].date : i \in RowsOf(revenue_df)}
LastDate == CHOOSE d \in Dates : \A e \in Dates : e <= d
FirstDate == CHOOSE d \in Dates : \A e \in Dates : d <= e
WindowExceedsSpan == 7 * test_weeks > LastDate - FirstDate

\* C5 as claimed: a window longer than the span of the dates leaves no row.
C5_EmptyWhenWindowExceedsSpan ==
    (Filtered /\ WindowExceedsSpan) => test_df = <<>>

\* C5 as amended: a window longer than the span of the dates retains every
\* row.
C5_AllRowsWhenWindowExceedsSpan ==
    (Filtered /\ WindowExceedsSpan) => test_df = revenue_df

C5_Witness ==
    /\ Filtered
    /\ WindowExceedsSpan
    /\ LastDate - FirstDate >= 4
    /\ test_df = revenue_df

Cutoff == LastDate - 7 * test_weeks

\* C6: the cutoff is max(date) - 7 * test_weeks, and the rows retained are
\* exactly the rows dated after it, in their order and with their labels: a
\* row on the cutoff day or before is dropped.
C6_StrictCutoff ==
    Filtered =>
        LET cutoff == Cutoff
            kept == Range(test_df)
        IN  /\ test_start = cutoff
            /\ \A i \in RowsOf(revenue_df) :
                  (revenue_df[i].date > cutoff) <=> (revenue_df[i] \in kept)
            /\ Len(test_df) =
                  Cardinality({i \in RowsOf(revenue_df) : revenue_df[i].date > cutoff})
            /\ \A i \in 1..(Len(test_df) - 1) : test_df[i].date <= test_df[i + 1].date

C6_Witness ==
    /\ Filtered
    /\ \E i \in RowsOf(revenue_df) :
          /\ revenue_df[i].date = Cutoff
          /\ revenue_df[i] \notin Range(test_df)
    /\ \E i \in RowsOf(test_df) : test_df[i].group = "control"

PowerRan == pc \in {"observed", "warn_control", "warn_power", "ttest", "summary",
                    "done", "crashed"}

\* C7: with a standard deviation of 0 the effect size is not handed to the
\* power solve and no summary table is built from it.
C7_ZeroStdReported ==
    (PowerRan /\ IsZero(std_dev)) => (solved_for = None /\ results = None)

Warned(w) == w \in Range(warnings)

C8_Warnings ==
    /\ Range(warnings) \subseteq {ControlTooSmall, Underpowered}
    /\ (pc \in {"warn_power", "ttest", "summary", "done"}) =>
          (Warned(ControlTooSmall) <=> Len(control_group) < 5)
    /\ (pc \in {"ttest", "summary", "done"}) =>
          (Warned(Underpowered) <=>
              (Len(test_group) < sample_needed \/ Len(control_group) < sample_needed))
    /\ (pc \notin {"warn_power", "ttest", "summary", "done"}) => warnings = <<>>
    /\ warnings # <<>> => error = "none"

C8_GoesOn ==
    warnings # <<>> =>
        /\ error' = "none"
        /\ warnings' # <<>>
        /\ pc = "warn_power" => pc' = "ttest"
        /\ pc = "ttest" => pc' = "summary"
        /\ pc = "summary" => (pc' = "done" /\ results' # None)

\* C8: the only warnings are the two, the first shown exactly when the
\* windowed control group has fewer than 5 rows, the second exactly when a
\* group has fewer rows than the required sample size, and a run that has
\* shown a warning goes on: no exception ends it, and every step from there
\* leads to the next block, the t-test guard and then the summary table.
C8_SoftWarnings == []C8_Warnings /\ [][C8_GoesOn]_vars

C8_Witness ==
    /\ pc = "done"
    /\ warnings = <<ControlTooSmall, Underpowered>>
    /\ Len(control_group) = 4

MeanOf(xs) == Num(Sum(xs), Len(xs))

\* C9: when the t-test ran, the absolute lift is mean(test) - mean(control);
\* the percent lift is lift / mean(control) * 100 when the control mean is
\* not 0, and is unavailable (None, shown as N/A) when it is 0.  Stated for
\* the runs whose effect size is finite: those get past the power solve
\* whatever solver is installed.
C9_PercentLift ==
    (Tested /\ ttest_ran /\ ~IsSpecial(effect_size)) =>
        /\ obs_lift = FSub(MeanOf(test_group), MeanOf(control_group))
        /\ Sum(control_group) # 0 =>
              percent_lift = Num(100 * obs_lift.n * Len(control_group),
                                 obs_lift.d * Sum(control_group))
        /\ Sum(control_group) = 0 =>
              /\ percent_lift = None
              /\ pc = "done" => results.observed_pct_lift = NA

\* C10: a run with at least one unit and a holdout count of 0 has no control
\* unit and every row in the test group, shows the control-too-small warning,
\* skips the t-test with its four results None, does not fail, and shows the
\* summary table with a holdout size of 0%.  Stated for the runs whose
\* effect size is not nan or inf: what the power solve does with them does
\* not depend on the solver installed.
C10_ZeroHoldoutHandled ==
    (Assigned /\ holdout_count = 0 /\ Len(cities) >= 1 /\ ~IsSpecial(effect_size)) =>
        /\ control_cities = <<>>
        /\ \A i \in RowsOf(revenue_df) : revenue_df[i].group = "test"
        /\ Observed => control_group = <<>>
        /\ (pc \in {"warn_power", "ttest", "summary", "done"}) =>
              Warned(ControlTooSmall)
        /\ Tested => (~ttest_ran /\ AllNone)
        /\ pc = "done" =>
              /\ results.holdout_size = Percent(Num(0, 1))
              /\ results.p_value = NA
        /\ pc # "crashed"

====
